---- MODULE Spec2Model ----
(***************************************************************************)
(* A model of arxiv_papers: the query command of src/src/main.py and the   *)
(* orchestrator, client holder and result parser of                        *)
(* src/src/arxiv_papers.py.  Strings are sequences of one-character        *)
(* strings, so that split, strip, lower, replace, join and the substring   *)
(* test are computed the way Python computes them.                         *)
(***************************************************************************)
EXTENDS Integers, Sequences, FiniteSets, Bags, TLC

\* ------------------------------------------------------------------ bounds

\* The largest number of (category, author) entries of a configuration.
MaxPairs == 3

\* The largest number of ArXiv() constructions within one process.
MaxInstances == 2

\* The largest number of (category, author) entries of a configuration of a
\* process that constructs ArXiv() several times.
MaxProcessPairs == 2

\* The largest number of authors of the category query arxiv_papers is called
\* with as a library function.
MaxLibraryPersons == 2

\* ------------------------------------------------------- string primitives

UpperCase == <<"A","B","C","D","E","F","G","H","I","J","K","L","M","N","O","P","Q","R","S","T","U","V","W","X","Y","Z">>

LowerCase == <<"a","b","c","d","e","f","g","h","i","j","k","l","m","n","o","p","q","r","s","t","u","v","w","x","y","z">>

DigitChars == <<"0","1","2","3","4","5","6","7","8","9">>

\* The lower-case letter of every upper-case letter.
LowerOf ==
    [ A |-> "a", B |-> "b", C |-> "c", D |-> "d", E |-> "e", F |-> "f", G |-> "g",
      H |-> "h", I |-> "i", J |-> "j", K |-> "k", L |-> "l", M |-> "m", N |-> "n",
      O |-> "o", P |-> "p", Q |-> "q", R |-> "r", S |-> "s", T |-> "t", U |-> "u",
      V |-> "v", W |-> "w", X |-> "x", Y |-> "y", Z |-> "z" ]

\* str.lower() on one character.
lower_char(c) == IF c \in DOMAIN LowerOf THEN LowerOf[c] ELSE c

\* str.lower()
lower(s) == [n \in 1..Len(s) |-> lower_char(s[n])]

RECURSIVE replace(_, _, _)
\* str.replace(a, b) for one-character a and b.
replace(s, a, b) ==
    IF s = <<>> THEN <<>>
    ELSE <<IF Head(s) = a THEN b ELSE Head(s)>> \o replace(Tail(s), a, b)

\* Python's `sub in s` on strings.
contains(sub, s) ==
    \E k \in 0..(Len(s) - Len(sub)) : \A n \in 1..Len(sub) : s[k + n] = sub[n]

RECURSIVE split(_, _)
\* str.split(sep) for a one-character sep: always at least one part.
split(s, sep) ==
    IF \A n \in 1..Len(s) : s[n] # sep
    THEN <<s>>
    ELSE LET p == CHOOSE n \in 1..Len(s) :
                      s[n] = sep /\ \A m \in 1..(n - 1) : s[m] # sep
         IN  <<SubSeq(s, 1, p - 1)>> \o split(SubSeq(s, p + 1, Len(s)), sep)

RECURSIVE strip(_)
\* str.strip(): leading and trailing blanks removed.
strip(s) ==
    IF s = <<>> THEN s
    ELSE IF Head(s) = " " THEN strip(Tail(s))
    ELSE IF s[Len(s)] = " " THEN strip(SubSeq(s, 1, Len(s) - 1))
    ELSE s

RECURSIVE join(_, _)
\* sep.join(parts)
join(sep, parts) ==
    IF parts = <<>> THEN <<>>
    ELSE IF Len(parts) = 1 THEN parts[1]
    ELSE parts[1] \o sep \o join(sep, Tail(parts))

RECURSIVE zero_padded(_, _)
\* A number printed in `width` digits, zero padded (strftime's %Y, %m, %d, %H, %M).
zero_padded(n, width) ==
    IF width = 0 THEN <<>>
    ELSE zero_padded(n \div 10, width - 1) \o <<DigitChars[(n % 10) + 1]>>

\* date.strftime("%Y%m%d0000")
strftime_query(d) ==
    zero_padded(d.year, 4) \o zero_padded(d.month, 2) \o zero_padded(d.day, 2)
        \o <<"0","0","0","0">>

\* datetime.strftime("%Y-%m-%d")
strftime_date(d) ==
    zero_padded(d.year, 4) \o <<"-">> \o zero_padded(d.month, 2) \o <<"-">>
        \o zero_padded(d.day, 2)

\* datetime.strftime("%Y-%m-%d %H:%M"): the seconds are dropped.
strftime_minute(t) ==
    strftime_date(t) \o <<" ">> \o zero_padded(t.hour, 2) \o <<":">>
        \o zero_padded(t.minute, 2)

\* ---------------------------------------------------------------- inputs

\* Author entries of config.toml: two well-formed ones, one without a comma,
\* one with two commas.
RawAuthors ==
    { <<"S","m","i","t","h",","," ","J","a","n","e">>,
      <<" ","D","e"," ","S","m","i","t","h","s","o","n"," ",",","A","l"," ">>,
      <<"S","m","i","t","h"," ","J","a","n","e">>,
      <<"S","m","i","t","h",","," ","J","a","n","e",","," ","E","x","t","r","a">> }

\* The category tables of config.toml, in file order.
Categories ==
    << <<"a","s","t","r","o","-","p","h">>, <<"p","h","y","s","i","c","s">> >>

\* The --start and --end options the command is given: end after start, and
\* end before start.
DateRanges ==
    { << [year |-> 2025, month |-> 1, day |-> 28], [year |-> 2025, month |-> 3, day |-> 20] >>,
      << [year |-> 2025, month |-> 3, day |-> 20], [year |-> 2025, month |-> 1, day |-> 28] >> }

\* The provider's records (arxiv.Result).
Records ==
    { [ entry_id  |-> <<"h","t","t","p",":","/","/","a","r","x","i","v",".","o","r","g","/","a","b","s","/","2","5","0","3",".","0","2","8","2","9","v","1">>,
        published |-> [year |-> 2025, month |-> 3, day |-> 4, hour |-> 18, minute |-> 59, second |-> 7],
        updated   |-> [year |-> 2025, month |-> 3, day |-> 4, hour |-> 18, minute |-> 59, second |-> 7],
        authors   |-> << <<"J","a","n","e"," ","A","."," ","S","M","I","T","H","-","J","o","n","e","s">>,
                         <<"K","."," ","D","o","e">> >>,
        title     |-> "title-1",
        summary   |-> "summary-1" ],
      [ entry_id  |-> <<"h","t","t","p",":","/","/","a","r","x","i","v",".","o","r","g","/","a","b","s","/","2","5","0","1",".","0","0","0","1","0","v","2">>,
        published |-> [year |-> 2025, month |-> 1, day |-> 30, hour |-> 9, minute |-> 5, second |-> 0],
        updated   |-> [year |-> 2025, month |-> 2, day |-> 11, hour |-> 23, minute |-> 0, second |-> 41],
        authors   |-> << <<"J","."," ","S","m","i","t","h">>,
                         <<"B","."," ","d","e"," ","S","m","i","t","h","s","o","n">> >>,
        title     |-> "title-2",
        summary   |-> "summary-2" ] }

\* Sequences over S of length at most n.
SeqUpTo(S, n) == UNION { [1..m -> S] : m \in 0..n }

RECURSIVE ConfigsWith(_, _)
\* The configurations of the first m category tables holding at most `budget`
\* author entries in all.
ConfigsWith(m, budget) ==
    IF m = 0 THEN { <<>> }
    ELSE UNION { { Append(c, [category |-> Categories[m], authors |-> a]) :
                     c \in ConfigsWith(m - 1, budget - n), a \in [1..n -> RawAuthors] }
                 : n \in 0..budget }

\* ------------------------------------------------------------ main.py

\* The outcome of a call: the value it returns, or the exception it raises.
Returned(v) == [raised |-> FALSE, value |-> v]

Raised(message) == [raised |-> TRUE, message |-> message]

\* A mutant of _parse_author: entries of more than two parts are let through.
_parse_author_at_least_two(author) ==
    LET author_parts == split(author, ",")
    IN  IF Len(author_parts) < 2
        THEN Raised("The author name must be of the form family name, given_name.")
        ELSE Returned([given_name  |-> strip(author_parts[2]),
                       family_name |-> strip(author_parts[1])])

_parse_author(author) ==
    LET author_parts == split(author, ",")
    IN  IF Len(author_parts) # 2
        THEN Raised("The author name must be of the form family name, given_name.")
        ELSE Returned([given_name  |-> strip(author_parts[2]),
                       family_name |-> strip(author_parts[1])])

\* _get_category_queries: every author entry of every category is parsed, and
\* the first entry that does not parse raises.
_get_category_queries(exists, config_data) ==
    IF ~exists THEN Raised("Configuration file not found")
    ELSE IF \E x \in 1..Len(config_data) :
                \E n \in 1..Len(config_data[x].authors) :
                    _parse_author(config_data[x].authors[n]).raised
    THEN Raised("The author name must be of the form family name, given_name.")
    ELSE Returned([x \in 1..Len(config_data) |->
             [category |-> config_data[x].category,
              authors  |-> [n \in 1..Len(config_data[x].authors) |->
                               _parse_author(config_data[x].authors[n]).value]]])

fieldnames ==
    <<"id", "submitted", "updated", "authors_of_interest", "authors", "title",
      "abstract", "url">>

\* The name of the output file.
out_path(start_, end_) ==
    <<"S","A","A","O","_","P","a","p","e","r","s","_">> \o strftime_date(start_) \o <<"_","t","o","_">> \o strftime_date(end_) \o <<".","c","s","v">>

\* The characters of the model in ASCII order (Python compares strings by code
\* point).
Ascii ==
    <<" ", "-", ".", "/", "0","1","2","3","4","5","6","7","8","9", ":">>
        \o UpperCase \o <<"_">> \o LowerCase \o <<"|">>

ord(c) == CHOOSE n \in 1..Len(Ascii) : Ascii[n] = c

\* Python's a < b on strings.
str_lt(a, b) ==
    \E n \in 1..(Len(b)) :
        /\ \A m \in 1..(n - 1) : m <= Len(a) /\ a[m] = b[m]
        /\ \/ n = Len(a) + 1
           \/ n <= Len(a) /\ ord(a[n]) < ord(b[n])

\* ArXivPaper.__lt__
paper_lt(self, other) == str_lt(self.id, other.id)

\* ------------------------------------------------------- arxiv_papers.py

\* Person.__str__
person_str(person) == person.given_name \o <<" ">> \o person.family_name

RECURSIVE every_match(_, _, _)
\* A mutant of first_match: the loop over the persons is not left at a match.
every_match(author, all_queried_persons, n) ==
    IF n > Len(all_queried_persons) THEN <<>>
    ELSE (IF contains(lower(all_queried_persons[n].family_name), lower(author))
          THEN <<author>> ELSE <<>>)
             \o every_match(author, all_queried_persons, n + 1)

RECURSIVE first_match(_, _, _)
\* The inner loop of _parse_result over the queried persons from position n:
\* the author is appended at the first person whose family name it contains,
\* and the loop is left.
first_match(author, all_queried_persons, n) ==
    IF n > Len(all_queried_persons) THEN <<>>
    ELSE IF contains(lower(all_queried_persons[n].family_name), lower(author))
    THEN <<author>>
    ELSE first_match(author, all_queried_persons, n + 1)

RECURSIVE interesting(_, _)
\* The outer loop of _parse_result over the paper's authors.
interesting(authors, all_queried_persons) ==
    IF authors = <<>> THEN <<>>
    ELSE first_match(Head(authors), all_queried_persons, 1)
             \o interesting(Tail(authors), all_queried_persons)

_parse_result(result, all_queried_persons) ==
    LET authors == result.authors
        authors_of_interest == interesting(authors, all_queried_persons)
        parts == split(result.entry_id, "/")
    IN  [id                  |-> parts[Len(parts)],
         submitted           |-> strftime_minute(result.published),
         updated             |-> strftime_minute(result.updated),
         authors_of_interest |-> join(<<"|">>, authors_of_interest),
         authors             |-> join(<<"|">>, authors),
         title               |-> result.title,
         abstract            |-> result.summary,
         url                 |-> result.entry_id]

\* The progress notice of query_arxiv.
notice(category, author) ==
    <<"Q","u","e","r","y","i","n","g"," ">> \o category \o <<" ","f","o","r"," ">> \o person_str(author) \o <<".",".",".">>

\* A mutant of au_term: the blanks are kept.
au_term_with_blanks(author) == lower(author.family_name)

\* The family name as it is put into the query.
au_term(author) == replace(lower(author.family_name), " ", "_")

\* The query string of query_arxiv.
query_string(category, author, start_, end_) ==
    LET au == au_term(author)
        cat == category
        submitted_date ==
            <<"[">> \o strftime_query(start_) \o <<" ","T","O"," ">> \o strftime_query(end_) \o <<"]">>
    IN  <<"c","a","t",":">> \o cat \o <<".","*"," ","A","N","D"," ","a","u",":">> \o au \o <<" ","A","N","D"," ","s","u","b","m","i","t","t","e","d","D","a","t","e",":">> \o submitted_date

\* max_results of the arxiv.Search of query_arxiv.
max_results == 100

\* A mutant of ArXiv__init__: a client is made by every construction.
ArXiv__init__always(_client, fresh) == fresh

\* ArXiv.__init__: the class attribute _client after the construction, given
\* the attribute before it and the client a call of arxiv.Client() would make.
ArXiv__init__(_client, fresh) == IF _client = 0 THEN fresh ELSE _client

RECURSIVE pairs_from(_, _)
\* The (category, author) positions the nested loops of arxiv_papers visit,
\* from category x on, in the order they visit them.
pairs_from(cqs, x) ==
    IF x > Len(cqs) THEN <<>>
    ELSE [n \in 1..Len(cqs[x].authors) |-> <<x, n>>] \o pairs_from(cqs, x + 1)

pairs(cqs) == pairs_from(cqs, 1)

\* A mutant of all_authors_of: only the person the query is made for.
only_the_author(category_query, author) == <<author>>

\* The persons query_arxiv is given as all_authors (arxiv_papers, line 138).
all_authors_of(category_query, author) == category_query.authors

\* ------------------------------------------------------------------ state

VARIABLES
    config_exists,      \* whether config.toml exists
    config_data,        \* what tomllib.load returns for it
    start,              \* the --start option
    end,                \* the --end option
    pc,                 \* where the query command is
    category_queries,   \* the list _get_category_queries returned
    _client,            \* ArXiv._client: 0 is None, n is the n-th arxiv.Client()
    clients_made,       \* how many times arxiv.Client() was called
    instances,          \* how many times ArXiv() was called
    next_pair,          \* the position of the loops of arxiv_papers
    papers,             \* the list papers of arxiv_papers, as a bag
    has_returned,       \* whether arxiv_papers has returned
    returned,           \* the set arxiv_papers returned
    out_file,           \* the output file
    exit_code,          \* the exit status: -1 while the command runs
    message,            \* the message of the exception being handled
    log,                \* what the run printed and sent to the provider, in order
    parsed              \* the calls of _parse_result, as a bag: the arguments, the
                        \* category query they were made for, and the value

vars ==
    <<config_exists, config_data, start, end, pc, category_queries, _client,
      clients_made, instances, next_pair, papers, has_returned, returned,
      out_file, exit_code, message, log, parsed>>

NoFile == [exists |-> FALSE, name |-> <<>>, header |-> <<>>, rows |-> <<>>]

\* The state before the command runs, for the configurations of at most
\* `budget` author entries.
InitWith(budget) ==
    /\ \/ /\ config_exists = TRUE
          /\ config_data \in UNION { ConfigsWith(m, budget) : m \in 0..Len(Categories) }
       \/ config_exists = FALSE /\ config_data = <<>>
    /\ \E range \in DateRanges : start = range[1] /\ end = range[2]
    /\ pc = "query"
    /\ category_queries = <<>>
    /\ _client = 0
    /\ clients_made = 0
    /\ instances = 0
    /\ next_pair = 0
    /\ papers = EmptyBag
    /\ has_returned = FALSE
    /\ returned = {}
    /\ out_file = NoFile
    /\ exit_code = -1
    /\ message = ""
    /\ log = <<>>
    /\ parsed = EmptyBag

Init == InitWith(MaxPairs)

\* ---------------------------------------------------------------- actions

\* query, lines 33-38: the configuration is read; an exception goes to the
\* except clause.
GetCategoryQueries ==
    /\ pc = "query"
    /\ LET r == _get_category_queries(config_exists, config_data)
       IN  IF r.raised
           THEN /\ pc' = "except"
                /\ message' = r.message
                /\ UNCHANGED category_queries
           ELSE /\ pc' = "arxiv_papers"
                /\ category_queries' = r.value
                /\ UNCHANGED message
    /\ UNCHANGED <<config_exists, config_data, start, end, _client, clients_made,
                   instances, next_pair, papers, has_returned, returned,
                   out_file, exit_code, log, parsed>>

\* ArXiv(): the class attribute is set when it is None.
Construct ==
    /\ _client' = ArXiv__init__(_client, clients_made + 1)
    /\ clients_made' = IF _client' = clients_made + 1 THEN clients_made + 1
                       ELSE clients_made
    /\ instances' = instances + 1

\* arxiv_papers, lines 133-135.
ArxivPapersBegin ==
    /\ pc = "arxiv_papers"
    /\ Construct
    /\ papers' = EmptyBag
    /\ next_pair' = 1
    /\ pc' = "loop"
    /\ UNCHANGED <<config_exists, config_data, start, end, category_queries,
                   has_returned, returned, out_file, exit_code, message, log,
                   parsed>>

\* Another ArXiv() in the same process.
AnotherArXiv ==
    /\ pc = "loop"
    /\ instances < MaxInstances
    /\ Construct
    /\ UNCHANGED <<config_exists, config_data, start, end, pc, category_queries,
                   next_pair, papers, has_returned, returned, out_file,
                   exit_code, message, log, parsed>>

\* A mutant of Request: the notice is printed after the query is sent.
Request_notice_last(category, author) ==
    << [kind |-> "search", query |-> query_string(category, author, start, end),
        max_results |-> max_results, client |-> _client],
       [kind |-> "notice", text |-> notice(category, author)] >>

\* What query_arxiv prints and sends before the results are consumed.
Request(category, author) ==
    << [kind |-> "notice", text |-> notice(category, author)],
       [kind |-> "search", query |-> query_string(category, author, start, end),
        max_results |-> max_results, client |-> _client] >>

\* One pass of the inner loop of arxiv_papers: query_arxiv returns the parsed
\* results, and the list is extended with them.
QueryArxiv ==
    /\ pc = "loop"
    /\ next_pair <= Len(pairs(category_queries))
    /\ LET at == pairs(category_queries)[next_pair]
           category_query == category_queries[at[1]]
           category == category_query.category
           author == category_query.authors[at[2]]
           all_authors == all_authors_of(category_query, author)
           call_of == { [result |-> result, category_query |-> at[1],
                         all_queried_persons |-> all_authors,
                         paper |-> _parse_result(result, all_authors)] :
                        result \in Records }
       IN  \E results \in SUBSET Records :
               LET calls == { call \in call_of : call.result \in results }
                   found == { call.paper : call \in calls }
               IN  /\ log' = log \o Request(category, author)
                              \o << [kind |-> "results"] >>
                   /\ papers' = papers (+) SetToBag(found)
                   /\ parsed' = parsed (+) SetToBag(calls)
    /\ next_pair' = next_pair + 1
    /\ UNCHANGED <<config_exists, config_data, start, end, pc, category_queries,
                   _client, clients_made, instances, has_returned, returned,
                   out_file, exit_code, message>>

\* A mutant of QueryArxivRaises: the exception is caught in the loop, which
\* goes on with the next entry.
QueryArxivRaises_swallowed ==
    /\ pc = "loop"
    /\ next_pair <= Len(pairs(category_queries))
    /\ LET at == pairs(category_queries)[next_pair]
           category_query == category_queries[at[1]]
       IN  log' = log \o Request(category_query.category,
                                 category_query.authors[at[2]])
    /\ next_pair' = next_pair + 1
    /\ message' = "remote query failed"
    /\ UNCHANGED <<config_exists, config_data, start, end, pc, category_queries,
                   _client, clients_made, instances, papers, has_returned,
                   returned, out_file, exit_code, parsed>>

\* A mutant of QueryArxivRaises: the exception is caught in the loop, and the
\* same entry is queried again.
QueryArxivRaises_retried ==
    /\ pc = "loop"
    /\ next_pair <= Len(pairs(category_queries))
    /\ Len(log) < 3 * (MaxPairs + 1)
    /\ LET at == pairs(category_queries)[next_pair]
           category_query == category_queries[at[1]]
       IN  log' = log \o Request(category_query.category,
                                 category_query.authors[at[2]])
    /\ message' = "remote query failed"
    /\ UNCHANGED <<config_exists, config_data, start, end, pc, category_queries,
                   _client, clients_made, instances, next_pair, papers,
                   has_returned, returned, out_file, exit_code, parsed>>

\* One pass of the inner loop in which the query or the parsing raises: the
\* exception leaves arxiv_papers and reaches the except clause of query.
QueryArxivRaises ==
    /\ pc = "loop"
    /\ next_pair <= Len(pairs(category_queries))
    /\ LET at == pairs(category_queries)[next_pair]
           category_query == category_queries[at[1]]
       IN  log' = log \o Request(category_query.category,
                                 category_query.authors[at[2]])
    /\ pc' = "except"
    /\ message' = "remote query failed"
    /\ UNCHANGED <<config_exists, config_data, start, end, category_queries,
                   _client, clients_made, instances, next_pair, papers,
                   has_returned, returned, out_file, exit_code, parsed>>

\* A mutant of ArxivPapersReturn: without papers nothing is returned, and the
\* caller fails on it.
ArxivPapersReturn_none_when_empty ==
    /\ pc = "loop"
    /\ next_pair > Len(pairs(category_queries))
    /\ IF papers = EmptyBag
       THEN /\ pc' = "except"
            /\ message' = "'NoneType' object is not iterable"
            /\ UNCHANGED <<returned, has_returned>>
       ELSE /\ returned' = BagToSet(papers)
            /\ has_returned' = TRUE
            /\ pc' = "save"
            /\ UNCHANGED message
    /\ UNCHANGED <<config_exists, config_data, start, end, category_queries,
                   _client, clients_made, instances, next_pair, papers,
                   out_file, exit_code, log, parsed>>

\* arxiv_papers, line 144.
ArxivPapersReturn ==
    /\ pc = "loop"
    /\ next_pair > Len(pairs(category_queries))
    /\ returned' = BagToSet(papers)
    /\ has_returned' = TRUE
    /\ pc' = "save"
    /\ UNCHANGED <<config_exists, config_data, start, end, category_queries,
                   _client, clients_made, instances, next_pair, papers,
                   out_file, exit_code, message, log, parsed>>

\* sorted(papers): an order of the set in which no paper is less than one
\* before it.
sorted_orders(S) ==
    { rows \in [1..Cardinality(S) -> S] :
        /\ \A p \in S : \E n \in 1..Cardinality(S) : rows[n] = p
        /\ \A n, m \in 1..Cardinality(S) :
               n < m => ~paper_lt(rows[m], rows[n]) }

\* query, lines 40-43, and _save: the file is opened and the header and the
\* rows are written; the command ends with status 0.
Save ==
    /\ pc = "save"
    /\ \E rows \in sorted_orders(returned) :
           out_file' = [exists |-> TRUE, name |-> out_path(start, end),
                        header |-> fieldnames, rows |-> rows]
    /\ exit_code' = 0
    /\ pc' = "exit"
    /\ UNCHANGED <<config_exists, config_data, start, end, category_queries,
                   _client, clients_made, instances, next_pair, papers,
                   has_returned, returned, message, log, parsed>>

\* query, lines 44-46: the message is printed and the command exits with 1.
ExceptHandler ==
    /\ pc = "except"
    /\ log' = Append(log, [kind |-> "error", text |-> message])
    /\ exit_code' = 1
    /\ pc' = "exit"
    /\ UNCHANGED <<config_exists, config_data, start, end, category_queries,
                   _client, clients_made, instances, next_pair, papers,
                   has_returned, returned, out_file, message, parsed>>

Next ==
    \/ GetCategoryQueries
    \/ ArxivPapersBegin
    \/ QueryArxiv
    \/ QueryArxivRaises
    \/ ArxivPapersReturn
    \/ Save
    \/ ExceptHandler

Spec == Init /\ [][Next]_vars

\* A process in which ArXiv() is constructed again while the command runs.
InitProcess == InitWith(MaxProcessPairs)

NextProcess == Next \/ AnotherArXiv

SpecProcess == InitProcess /\ [][NextProcess]_vars

\* arxiv_papers called with a Configuration of one category query whose
\* authors are any persons, not only those _parse_author makes.
LibraryPersons ==
    { [given_name |-> <<"J","a","n","e">>, family_name |-> <<"S","m","i","t","h">>],
      [given_name |-> <<"A","l">>, family_name |-> <<"S","m","i","t","h","s","o","n">>],
      [given_name |-> <<"J","o">>, family_name |-> <<"J","O","N","E","S">>],
      [given_name |-> <<"X">>, family_name |-> <<>>] }

InitLibrary ==
    /\ config_exists = TRUE
    /\ config_data = <<>>
    /\ \E range \in DateRanges : start = range[1] /\ end = range[2]
    /\ pc = "arxiv_papers"
    /\ \E authors \in SeqUpTo(LibraryPersons, MaxLibraryPersons) :
           category_queries = << [category |-> Categories[1], authors |-> authors] >>
    /\ _client = 0
    /\ clients_made = 0
    /\ instances = 0
    /\ next_pair = 0
    /\ papers = EmptyBag
    /\ has_returned = FALSE
    /\ returned = {}
    /\ out_file = NoFile
    /\ exit_code = -1
    /\ message = ""
    /\ log = <<>>
    /\ parsed = EmptyBag

NextLibrary ==
    \/ ArxivPapersBegin
    \/ QueryArxiv
    \/ QueryArxivRaises
    \/ ArxivPapersReturn

SpecLibrary == InitLibrary /\ [][NextLibrary]_vars

\* ------------------------------------------------------------ properties

\* The events of one kind, in the order they happened.
events(kind) == SelectSeq(log, LAMBDA e : e.kind = kind)

\* The number of (category, author) entries of the first x category queries.
RECURSIVE entries_upto(_)
entries_upto(x) ==
    IF x = 0 THEN 0 ELSE Len(category_queries[x].authors) + entries_upto(x - 1)

total_entries == entries_upto(Len(category_queries))

\* The k-th (category, author) entry in configuration order, as <<x, n>>.
entry(k) ==
    CHOOSE at \in UNION { { <<x, n>> : n \in 1..Len(category_queries[x].authors) } :
                          x \in 1..Len(category_queries) } :
        entries_upto(at[1] - 1) + at[2] = k

\* Whether the author's name contains the family name of one of the persons,
\* letter case apart.
of_interest(author, persons) ==
    \E n \in 1..Len(persons) :
        contains(lower(persons[n].family_name), lower(author))

\* The calls of _parse_result made for the record in the x-th category query.
calls_for(record, x) ==
    { call \in BagToSet(parsed) : call.result = record /\ call.category_query = x }

RECURSIVE copies(_)
\* How many calls of _parse_result the set of calls stands for.
copies(calls) ==
    IF calls = {} THEN 0
    ELSE LET call == CHOOSE c \in calls : TRUE
         IN  CopiesIn(call, parsed) + copies(calls \ {call})

\* The papers of the returned set made from the record.
papers_of(record) == { paper \in returned : paper.url = record.entry_id }

\* C1: when a record is returned by two queries of one category query (and by
\* no query of another), the returned set holds one paper for it, whose
\* authors_of_interest are those matching the whole author list of the
\* category query.
C1_OncePerCategoryQuery ==
    has_returned =>
        \A x \in 1..Len(category_queries) : \A record \in Records :
            ( /\ copies(calls_for(record, x)) >= 2
              /\ \A y \in 1..Len(category_queries) :
                     y # x => calls_for(record, y) = {} )
            => /\ Cardinality(papers_of(record)) = 1
               /\ \A paper \in papers_of(record) :
                      paper.authors_of_interest =
                          join(<<"|">>,
                               SelectSeq(record.authors,
                                         LAMBDA a : of_interest(a, category_queries[x].authors)))

\* Two different persons of one category query were both answered with the
\* same record, which matches only one of them, and the set was returned.
C1_Witness ==
    /\ has_returned
    /\ \E x \in 1..Len(category_queries) : \E record \in Records :
           /\ Len(category_queries[x].authors) = 2
           /\ category_queries[x].authors[1] # category_queries[x].authors[2]
           /\ copies(calls_for(record, x)) = 2
           /\ \A y \in 1..Len(category_queries) : y # x => calls_for(record, y) = {}
           /\ \E a \in 1..Len(record.authors) :
                  /\ of_interest(record.authors[a], <<category_queries[x].authors[1]>>)
                  /\ ~of_interest(record.authors[a], <<category_queries[x].authors[2]>>)
           /\ Cardinality(papers_of(record)) = 1

\* The number of commas of a string.
commas(s) == Cardinality({ n \in 1..Len(s) : s[n] = "," })

\* Whether t is s without its leading and trailing blanks.
is_stripped(t, s) ==
    /\ t # <<>> => t[1] # " " /\ t[Len(t)] # " "
    /\ \E lead \in 0..(Len(s) - Len(t)) :
           /\ \A n \in 1..Len(t) : s[lead + n] = t[n]
           /\ \A n \in 1..Len(s) : (n <= lead \/ n > lead + Len(t)) => s[n] = " "

\* Whether some author entry of the configuration file has no comma or several.
malformed_entry ==
    \E x \in 1..Len(config_data) :
        \E n \in 1..Len(config_data[x].authors) : commas(config_data[x].authors[n]) # 1

\* C4: an author entry without exactly one comma, wherever it stands, ends the
\* run with the configuration error and a status other than 0, with no query
\* sent and no output file; otherwise "Family, Given" becomes the person with
\* the given name and the family name, both stripped.
C4_AuthorEntries ==
    /\ (config_exists /\ malformed_entry) =>
           /\ pc \in {"query", "except", "exit"}
           /\ events("search") = <<>>
           /\ ~out_file.exists
           /\ exit_code # 0
           /\ pc # "query" =>
                  message = "The author name must be of the form family name, given_name."
           /\ pc = "exit" => exit_code = 1
    /\ (config_exists /\ ~malformed_entry /\ pc # "query") =>
           /\ Len(category_queries) = Len(config_data)
           /\ \A x \in 1..Len(config_data) :
                  /\ category_queries[x].category = config_data[x].category
                  /\ Len(category_queries[x].authors) = Len(config_data[x].authors)
                  /\ \A n \in 1..Len(config_data[x].authors) :
                         LET raw == config_data[x].authors[n]
                             comma == CHOOSE c \in 1..Len(raw) : raw[c] = ","
                             person == category_queries[x].authors[n]
                         IN  /\ is_stripped(person.family_name, SubSeq(raw, 1, comma - 1))
                             /\ is_stripped(person.given_name,
                                            SubSeq(raw, comma + 1, Len(raw)))

\* The command has ended on a malformed entry that stands in the second
\* category, after a well-formed entry of the first.
C4_Witness ==
    /\ pc = "exit"
    /\ exit_code = 1
    /\ config_exists
    /\ Len(config_data) = 2
    /\ Len(config_data[1].authors) >= 1
    /\ \A n \in 1..Len(config_data[1].authors) : commas(config_data[1].authors[n]) = 1
    /\ \E n \in 1..Len(config_data[2].authors) : commas(config_data[2].authors[n]) > 1

\* C5: the authors_of_interest of every parsed paper are the record's authors
\* whose name contains, letter case apart, the family name of a queried
\* person: in the record's order, each once.  Smith matches
\* "Jane A. SMITH-Jones"; Smithson does not match "J. Smith".
C5_AuthorsOfInterest ==
    \A call \in BagToSet(parsed) :
        /\ call.paper.authors_of_interest =
               join(<<"|">>,
                    SelectSeq(call.result.authors,
                              LAMBDA a : of_interest(a, call.all_queried_persons)))
        /\ ( /\ \E n \in 1..Len(call.all_queried_persons) :
                    call.all_queried_persons[n].family_name = <<"S","m","i","t","h">>
             /\ call.result.authors[1] = <<"J","a","n","e"," ","A","."," ","S","M","I","T","H","-","J","o","n","e","s">> )
           => SubSeq(call.paper.authors_of_interest, 1, 19) = <<"J","a","n","e"," ","A","."," ","S","M","I","T","H","-","J","o","n","e","s">>
        /\ ( /\ \A n \in 1..Len(call.all_queried_persons) :
                    call.all_queried_persons[n].family_name = <<"S","m","i","t","h","s","o","n">>
             /\ Len(call.all_queried_persons) >= 1
             /\ call.result.authors[1] = <<"J","."," ","S","m","i","t","h">> )
           => call.paper.authors_of_interest = <<"B","."," ","d","e"," ","S","m","i","t","h","s","o","n">>

\* A record was parsed whose first author matches two of the queried persons
\* and whose second author matches none.
C5_Witness ==
    \E call \in BagToSet(parsed) :
        /\ Len(call.all_queried_persons) = 2
        /\ \A n \in 1..2 : of_interest(call.result.authors[1], <<call.all_queried_persons[n]>>)
        /\ call.all_queried_persons[1] # call.all_queried_persons[2]
        /\ ~of_interest(call.result.authors[2], call.all_queried_persons)
        /\ call.paper.authors_of_interest = call.result.authors[1]

\* C6: the returned set, and the rows of the output file, hold at most one
\* paper of every id.
C6_OnePaperPerId ==
    /\ has_returned =>
           \A p \in returned : \A q \in returned : p.id = q.id => p = q
    /\ out_file.exists =>
           \A n \in 1..Len(out_file.rows) : \A m \in 1..Len(out_file.rows) :
               out_file.rows[n].id = out_file.rows[m].id => n = m

\* C9: with no category query, no query is sent and arxiv_papers returns the
\* empty set, whatever the dates are.
C9_EmptyConfiguration ==
    (config_exists /\ config_data = <<>>) =>
        /\ events("search") = <<>>
        /\ message = ""
        /\ has_returned => returned = {}
        /\ pc \in {"save", "exit"} => has_returned
        /\ pc = "exit" => exit_code = 0 /\ out_file.exists /\ out_file.rows = <<>>

\* The command has ended for an empty configuration and an end date before
\* the start date.
C9_Witness ==
    /\ config_exists
    /\ config_data = <<>>
    /\ pc = "exit"
    /\ has_returned
    /\ returned = {}
    /\ end.month < start.month

C3_AbortOnFailure ==
    message = "remote query failed" =>
        /\ pc \in {"except", "exit"}
        /\ ~has_returned
        /\ returned = {}
        /\ next_pair <= total_entries
        /\ Len(events("search")) = next_pair
        /\ Len(events("results")) = next_pair - 1

\* The second of three queries failed after the first had found papers, and
\* the command has ended.
C3_Witness ==
    /\ pc = "exit"
    /\ message = "remote query failed"
    /\ next_pair = 2
    /\ total_entries = 3
    /\ papers # EmptyBag
    /\ ~has_returned

\* The number of queries answered so far in a run without an exception.
answered ==
    IF pc \in {"query", "arxiv_papers"} THEN 0
    ELSE IF pc = "loop" THEN next_pair - 1
    ELSE total_entries

\* C7: in a run without failure the log is, entry by entry in configuration
\* order, the notice naming the entry, then its query, then the consumption of
\* its results; nothing else is sent or printed.
C7_OneQueryPerEntryInOrder ==
    message = "" =>
        /\ Len(log) = 3 * answered
        /\ \A k \in 1..answered :
               LET category_query == category_queries[entry(k)[1]]
                   person == category_query.authors[entry(k)[2]]
               IN  /\ log[3 * k - 2].kind = "notice"
                   /\ log[3 * k - 2].text =
                          <<"Q","u","e","r","y","i","n","g"," ">> \o category_query.category \o <<" ","f","o","r"," ">>
                              \o person.given_name \o <<" ">> \o person.family_name
                              \o <<".", ".", ".">>
                   /\ log[3 * k - 1].kind = "search"
                   /\ log[3 * k - 1].query =
                          query_string(category_query.category, person, start, end)
                   /\ log[3 * k].kind = "results"

\* A run over two categories, the first of them with two authors, has ended
\* with status 0.
C7_Witness ==
    /\ pc = "exit"
    /\ exit_code = 0
    /\ Len(category_queries) = 2
    /\ Len(category_queries[1].authors) = 2
    /\ Len(category_queries[2].authors) = 1
    /\ category_queries[1].authors[1] # category_queries[1].authors[2]
    /\ Len(log) = 9

\* C8: arxiv.Client() is called at most once, by the first ArXiv(); from then
\* on the class attribute is that client, and every query is sent with it.
C8_OneClient ==
    /\ clients_made <= 1
    /\ instances = 0 => _client = 0 /\ clients_made = 0
    /\ instances > 0 => _client = 1 /\ clients_made = 1
    /\ \A n \in 1..Len(log) : log[n].kind = "search" => log[n].client = 1

\* ArXiv() was constructed twice in a run that sent two queries and has
\* ended.
C8_Witness ==
    /\ instances >= 2
    /\ clients_made = 1
    /\ Len(events("search")) >= 2
    /\ pc = "exit"

\* date as YYYYMMDD
yyyymmdd(d) ==
    << DigitChars[((d.year \div 1000) % 10) + 1], DigitChars[((d.year \div 100) % 10) + 1],
       DigitChars[((d.year \div 10) % 10) + 1], DigitChars[(d.year % 10) + 1],
       DigitChars[(d.month \div 10) + 1], DigitChars[(d.month % 10) + 1],
       DigitChars[(d.day \div 10) + 1], DigitChars[(d.day % 10) + 1] >>

====
